---- MODULE Spec2Model ----
(***************************************************************************)
(* A model of DataGeneration.py (class training_data): the random source   *)
(* and generate_random_stevens, ham_cr, the angular-momentum operators,    *)
(* the three thermal observables and output_all_data.                      *)
(*                                                                         *)
(* Numbers.  A uniform draw rg.random() is one of the values u/Levels,     *)
(* u \in 0..Levels-1.  A Stevens parameter x is held as the integer        *)
(* x*Levels, so that lo + (hi-lo)*random() is exact; the threshold 1 of    *)
(* the rejection test is then Levels.  Range tables hold whole numbers.    *)
(***************************************************************************)
EXTENDS Integers, Sequences, FiniteSets, TLC

\* ------------------------------------------------------------------------
\* Bounds of the model
\* ------------------------------------------------------------------------
\* rg.random() returns u/Levels for u in 0..Levels-1
Levels == 2
\* calls of generate_random_stevens per instance
MaxCalls == 2
\* passes of the rejection loop per call
MaxLoops == 2
\* longest argument vector handed to ham_cr
MaxParams == 7
\* largest 2J whose operators are built
MaxTwoJ == 4
\* most points of a temperature grid
MaxSteps == 3
\* most draws of one call of output_all_data
MaxNt == 2
\* most field directions of an instance
MaxDirections == 2

\* ------------------------------------------------------------------------
\* Inputs
\* ------------------------------------------------------------------------
\* point group tags: the three the code knows and one it does not
PointGroups == {"Oh", "C4v", "D3h", "Td"}
Seeds == {1, 2}
SignSelectors == {1, -1}
\* range tables [[x0_min, x0_max], [x1_min, x1_max], ...]; a group reads the
\* leading entries it needs.  The first is the table of the source's driver,
\* the second touches the threshold from both sides, the third has a leading
\* range that is not positive, the fourth admits no interior tuple.
RangeTables ==
    { << <<1, 50>>, <<-1, 1>>, <<-1, 1>>, <<-1, 1>>, <<-1, 1>> >>,
      << <<1, 2>>,  <<0, 1>>,  <<0, 1>>,  <<-1, 0>>, <<0, 0>> >>,
      << <<-1, 1>>, <<-2, 2>>, <<0, 0>>,  <<0, 0>>,  <<0, 1>> >>,
      << <<1, 50>>, <<1, 2>>,  <<1, 2>>,  <<1, 2>>,  <<1, 2>> >> }

\* the calls made when the sequences are pinned
ReproArgs ==
    { << << <<1, 50>>, <<-1, 1>>, <<-1, 1>>, <<-1, 1>>, <<-1, 1>> >>, -1 >>,
      << << <<1, 2>>,  <<0, 1>>,  <<0, 1>>,  <<-1, 0>>, <<0, 0>> >>, 1 >> }

VARIABLES
    td,        \* the training_data instances: id -> fields and the frame of its call
    stream,    \* which sequence each generator key produces (read when replay)
    replay,    \* whether the generators' sequences are pinned, or any draw may come
    hc,        \* one call of ham_cr: the instance's fields, the argument, the outcome
    ob,        \* the operators and observables of one instance: arguments and results
    od         \* one run of output_all_data: its locals and the four lists

samplerVars == <<td, stream, replay>>
vars == <<td, stream, replay, hc, ob, od>>

\* the value of a part of the state that a specification does not use
Off == [pc |-> "off"]

\* ------------------------------------------------------------------------
\* Arithmetic helpers
\* ------------------------------------------------------------------------
Abs(x) == IF x < 0 THEN -x ELSE x

RECURSIVE SumAbs(_)
\* np.sum(np.abs(a))
SumAbs(a) == IF a = <<>> THEN 0 ELSE Abs(Head(a)) + SumAbs(Tail(a))

RECURSIVE SumSigned(_)
SumSigned(a) == IF a = <<>> THEN 0 ELSE Head(a) + SumSigned(Tail(a))

\* ------------------------------------------------------------------------
\* The random source
\* ------------------------------------------------------------------------
\* self.rg = default_rng(rng_seed): the seed fixes the sequence; pos counts draws
init_rg_unseeded(t, rng_seed) == [key |-> 100 + t, pos |-> 0]
init_rg(t, rng_seed) == [key |-> rng_seed, pos |-> 0]

\* the value (times Levels) that the generator of the given key returns as its
\* draw number pos, counted from 0, when the sequence is pinned: a function of
\* the key and the position alone, one such function per value of stream
Produced(key, pos) == ((key + stream) * (pos + 1)) % Levels

\* self.rg.random(), Len(us) times: the generator of instance t returns
\* us[j]/Levels.  With replay the values are the pinned sequence of its key;
\* without, any sequence of values may come.
RgRandom(t, us) ==
    /\ \A j \in 1..Len(us) : us[j] \in 0..(Levels - 1)
    /\ replay => \A j \in 1..Len(us) :
                    us[j] = Produced(td[t].rg.key, td[t].rg.pos + j - 1)
    /\ UNCHANGED <<stream, replay>>

\* ------------------------------------------------------------------------
\* generate_random_stevens
\* ------------------------------------------------------------------------
\* range[j][0] + (range[j][1] - range[j][0])*random(), times Levels
Uniform(r, u) == r[1] * Levels + (r[2] - r[1]) * u

\* (range[0][0] + (range[0][1] - range[0][0])*random())*W_sign
LeadNoSign(range, W_sign, u) == Uniform(range[1], u)
Lead(range, W_sign, u) == Uniform(range[1], u) * W_sign

\* 2.*random() - 1.
SignDraw(u) == 2 * u - Levels

\* np.array([1.,1.,1.,1.,1., 0.]) and np.array([1.,1.,1.,1., 0.])
InitialParams(pg) ==
    IF pg = "C4v" THEN <<Levels, Levels, Levels, Levels, Levels, 0>>
    ELSE <<Levels, Levels, Levels, Levels, 0>>

\* the while test: sum(|p|) - |p[0]| - |p[-1]| > 1
LoopCondSigned(p) == SumSigned(p) - p[1] - p[Len(p)] > Levels
LoopCond(p) == SumAbs(p) - Abs(p[1]) - Abs(p[Len(p)]) > Levels

\* entries assigned in one pass of the loop: 0..4 for C4v, 0..3 for D3h
LoopEntriesInterior(pg) == IF pg = "C4v" THEN 4 ELSE 3
LoopEntries(pg) == IF pg = "C4v" THEN 5 ELSE 4

\* stevens_params[j] = ... inside the loop (j counted from 0 as in the source)
LoopAssign(p, j, range, W_sign, u) ==
    [p EXCEPT ![j + 1] = IF j = 0 THEN Lead(range, W_sign, u)
                         ELSE Uniform(range[j + 1], u)]

\* the Oh branch: x0, x1 and the returned array
OhBranch(range, W_sign, u0, u1) ==
    << Lead(range, W_sign, u0), Uniform(range[2], u1) >>

\* the arguments <<range, W_sign>> a call may be made with
CallArgs == IF replay THEN ReproArgs ELSE RangeTables \X SignSelectors

\* no call is running: a call runs to its end before the next one starts
Quiet == \A t \in DOMAIN td : td[t].pc \in {"idle", "done", "error"}

\* no draw has been made yet
NoDraw == 0 - 1

\* the frame of a new call; u_first and u_lead remember the first draw of the
\* call and the draw that stevens_params[0] was last assigned from
Enter(s, range, W_sign) ==
    [s EXCEPT !.range = range, !.W_sign = W_sign, !.stevens_params = <<>>,
              !.i = 0, !.k = 0, !.n = 0, !.ret = <<>>, !.err = "none",
              !.u_first = NoDraw, !.u_lead = NoDraw, !.accept = {},
              !.calls = @ + 1,
              !.args = IF replay THEN Append(@, <<range, W_sign>>) ELSE @]

\* The counters k, n and rg.pos are kept exactly while the instance is counted,
\* and then the model follows at most MaxLoops passes of a call.  The while
\* statement itself has no counter: an instance that is not counted loops as
\* long as the test holds, k stops at MaxLoops and n and rg.pos are not kept.
MayLoopCapped(s) == s.k < MaxLoops
MayLoop(s) == s.counted => s.k < MaxLoops

Advance(s, x, by) == IF s.counted THEN x + by ELSE x

Passes(s) == IF s.counted \/ s.k < MaxLoops THEN s.k + 1 ELSE s.k

\* return stevens_params
Return(s, p, drawn) ==
    [s EXCEPT !.pc = "done", !.stevens_params = p, !.ret = p,
              !.n = Advance(s, @, drawn),
              !.rg = [@ EXCEPT !.pos = Advance(s, @, drawn)],
              !.outs = IF replay THEN Append(@, p) ELSE @]

\* raise ValueError("This point group is not implemented.")
RaiseAfterDraw(s) ==
    [s EXCEPT !.pc = "error", !.err = "ValueError: point group not implemented",
              !.n = @ + 1, !.rg = [@ EXCEPT !.pos = @ + 1]]
RaiseUnsupported(s) ==
    [s EXCEPT !.pc = "error", !.err = "ValueError: point group not implemented"]

\* point_group == 'Oh': both parameters drawn once, no loop
CallOh(t, range, W_sign, u0, u1) ==
    /\ Quiet /\ td[t].calls < MaxCalls
    /\ td[t].point_group = "Oh"
    /\ RgRandom(t, <<u0, u1>>)
    /\ td' = [td EXCEPT ![t] =
                Return(Enter(@, range, W_sign), OhBranch(range, W_sign, u0, u1), 2)]

\* the array after one pass of the loop that makes the draws us
OnePass(pg, range, W_sign, us) ==
    [j \in 1..(LoopEntries(pg) + 1) |->
        IF j <= LoopEntries(pg)
        THEN LoopAssign(InitialParams(pg), j - 1, range, W_sign, us[j])[j]
        ELSE 0]

\* the passes after which the while test fails; a call keeps them in accept,
\* which the program does not hold and nothing but the fairness of the random
\* source reads
AcceptedPasses(pg, range, W_sign) ==
    {x \in {OnePass(pg, range, W_sign, us) :
                us \in [1..LoopEntries(pg) -> 0..(Levels - 1)]} : ~LoopCond(x)}

\* point_group == 'C4v' or 'D3h': the array is set up and the loop is reached
CallLoopGroup(t, range, W_sign) ==
    /\ Quiet /\ td[t].calls < MaxCalls
    /\ td[t].point_group \in {"C4v", "D3h"}
    /\ td' = [td EXCEPT ![t] =
                [Enter(@, range, W_sign) EXCEPT
                    !.pc = "while",
                    !.accept = AcceptedPasses(td[t].point_group, range, W_sign),
                    !.stevens_params = InitialParams(td[t].point_group)]]
    /\ UNCHANGED <<stream, replay>>

\* else: raise
CallUnsupported(t, range, W_sign) ==
    /\ Quiet /\ td[t].calls < MaxCalls
    /\ td[t].point_group \notin {"Oh", "C4v", "D3h"}
    /\ td' = [td EXCEPT ![t] = RaiseUnsupported(Enter(@, range, W_sign))]
    /\ UNCHANGED <<stream, replay>>

\* the while test holds: the pass starts with the leading entry
LoopFirst(t, u) ==
    /\ td[t].pc = "while"
    /\ LoopCond(td[t].stevens_params)
    /\ MayLoop(td[t])
    /\ RgRandom(t, <<u>>)
    /\ td' = [td EXCEPT ![t] =
                [@ EXCEPT !.pc = "body", !.i = 1, !.k = Passes(td[t]),
                          !.n = Advance(td[t], @, 1),
                          !.rg = [@ EXCEPT !.pos = Advance(td[t], @, 1)],
                          !.u_first = IF @ = NoDraw THEN u ELSE @,
                          !.u_lead = u,
                          !.stevens_params =
                              LoopAssign(@, 0, td[t].range, td[t].W_sign, u)]]

\* the next assignment of the pass; after the last one the test is reached again
LoopNext(t, u) ==
    /\ td[t].pc = "body"
    /\ RgRandom(t, <<u>>)
    /\ td' = [td EXCEPT ![t] =
                [@ EXCEPT !.pc = IF td[t].i + 1 = LoopEntries(td[t].point_group)
                                 THEN "while" ELSE "body",
                          !.i = @ + 1, !.n = Advance(td[t], @, 1),
                          !.rg = [@ EXCEPT !.pos = Advance(td[t], @, 1)],
                          !.stevens_params =
                              LoopAssign(@, td[t].i, td[t].range, td[t].W_sign, u)]]

\* the while test fails: the trailing sign entry is drawn and the array returned
LoopExit(t, u) ==
    /\ td[t].pc = "while"
    /\ ~LoopCond(td[t].stevens_params)
    /\ RgRandom(t, <<u>>)
    /\ td' = [td EXCEPT ![t] =
                Return(@, [td[t].stevens_params EXCEPT
                              ![Len(td[t].stevens_params)] = SignDraw(u)], 1)]

\* __init__: the fields the sampler reads, and the state before any call
NewInstance(t, pg, seed) ==
    [point_group |-> pg, rng_seed |-> seed, rg |-> init_rg(t, seed),
     pc |-> "idle", range |-> <<>>, W_sign |-> 0, stevens_params |-> <<>>,
     i |-> 0, k |-> 0, n |-> 0, ret |-> <<>>, err |-> "none", calls |-> 0,
     u_first |-> NoDraw, u_lead |-> NoDraw, accept |-> {}, counted |-> TRUE,
     args |-> <<>>, outs |-> <<>>]

generate_random_stevens_Oh ==
    /\ \E t \in DOMAIN td, a \in CallArgs, u0, u1 \in 0..(Levels - 1) :
          CallOh(t, a[1], a[2], u0, u1)
    /\ UNCHANGED <<hc, ob, od>>

generate_random_stevens_loop_group ==
    /\ \E t \in DOMAIN td, a \in CallArgs : CallLoopGroup(t, a[1], a[2])
    /\ UNCHANGED <<hc, ob, od>>

generate_random_stevens_else ==
    /\ \E t \in DOMAIN td, a \in CallArgs : CallUnsupported(t, a[1], a[2])
    /\ UNCHANGED <<hc, ob, od>>

while_first ==
    /\ \E t \in DOMAIN td, u \in 0..(Levels - 1) : LoopFirst(t, u)
    /\ UNCHANGED <<hc, ob, od>>

while_next ==
    /\ \E t \in DOMAIN td, u \in 0..(Levels - 1) : LoopNext(t, u)
    /\ UNCHANGED <<hc, ob, od>>

while_exit ==
    /\ \E t \in DOMAIN td, u \in 0..(Levels - 1) : LoopExit(t, u)
    /\ UNCHANGED <<hc, ob, od>>

\* one instance; its draws are unconstrained and nothing is kept for replay
Init ==
    /\ \E pg \in PointGroups, seed \in Seeds :
          td = [t \in {1} |-> NewInstance(t, pg, seed)]
    /\ stream = 0
    /\ replay = FALSE
    /\ hc = Off /\ ob = Off /\ od = Off

Next ==
    \/ generate_random_stevens_Oh
    \/ generate_random_stevens_loop_group
    \/ generate_random_stevens_else
    \/ while_first
    \/ while_next
    \/ while_exit

Spec == Init /\ [][Next]_vars

\* two instances whose calls follow one another; each generator's sequence is
\* pinned by its key, so that generators with equal seeds produce equal values
InitRepro ==
    /\ \E pg1, pg2 \in PointGroups, seed1, seed2 \in Seeds :
          td = [t \in {1, 2} |-> IF t = 1 THEN NewInstance(t, pg1, seed1)
                                  ELSE NewInstance(t, pg2, seed2)]
    /\ stream \in 0..1
    /\ replay = TRUE
    /\ hc = Off /\ ob = Off /\ od = Off

SpecRepro == InitRepro /\ [][Next]_vars

\* ------------------------------------------------------------------------
\* ham_cr
\* ------------------------------------------------------------------------
\* J is held as 2J.  The values the branches of ham_cr compare self.J with:
\* 4, 7.5, 3.5, 6, 8, 4.5
LibraryTwoJ == {8, 15, 7, 12, 16, 9}

\* the values of J tried: those, and 15 (the driver's J = 15/1), 2.5 and 0
TwoJValues == LibraryTwoJ \cup {30, 5, 0}

\* the length each branch compares len(stevens_params) with
StevensCountNominal(pg) ==
    IF pg = "Oh" THEN 2 ELSE IF pg = "C4v" THEN 5 ELSE 4
StevensCount(pg) ==
    IF pg = "Oh" THEN 2 ELSE IF pg = "C4v" THEN 6 ELSE 5

\* raise ValueError("Number of Stevens parameters should be ... for point group ...")
CountError(pg) ==
    [kind |-> "raise",
     err |-> IF pg = "Oh"
             THEN "ValueError: Number of Stevens parameters should be 2 for point group Oh"
             ELSE IF pg = "C4v"
             THEN "ValueError: Number of Stevens parameters should be 5+1=6 for point group C4v"
             ELSE "ValueError: Number of Stevens parameters should be 4+1=5 for point group D3h",
     lib |-> <<>>]

\* return ham_cr.ham_cr_PG_<pg>_J_<J>(stevens_params[0], ...): the matrix is the
\* library's; it is held as the call that made it
LibraryCall(pg, twoJ, p) ==
    LET call == [fn |-> <<"ham_cr_PG", pg, "J", twoJ>>,
                 args |-> SubSeq(p, 1, StevensCount(pg))]
    IN [kind |-> "matrix", ham |-> call, lib |-> <<call>>]

\* the if/elif chain over self.J of one branch; when no comparison holds the
\* branch ends and the function returns None
JChain(pg, twoJ, p) ==
    IF twoJ \in LibraryTwoJ THEN LibraryCall(pg, twoJ, p)
    ELSE [kind |-> "none", lib |-> <<>>]

\* ham_cr(self, stevens_params)
ham_cr(pg, twoJ, p) ==
    IF pg \in {"Oh", "C4v", "D3h"}
    THEN IF Len(p) # StevensCount(pg) THEN CountError(pg) ELSE JChain(pg, twoJ, p)
    ELSE [kind |-> "raise",
          err |-> "ValueError: This point group and/or value of J is not implemented.",
          lib |-> <<>>]

\* the argument vectors tried: every length up to MaxParams
ParamVectors == UNION {[1..n -> {0, 1}] : n \in 0..MaxParams}

\* one call of ham_cr on an instance with the given point group and J
ham_cr_call ==
    /\ hc.pc = "ready"
    /\ hc' = [hc EXCEPT !.pc = "called",
                        !.out = ham_cr(hc.point_group, hc.J, hc.stevens_params)]
    /\ UNCHANGED <<td, stream, replay, ob, od>>

InitHam ==
    /\ \E pg \in PointGroups, twoJ \in TwoJValues, p \in ParamVectors :
          hc = [pc |-> "ready", point_group |-> pg, J |-> twoJ,
                stevens_params |-> p, out |-> [kind |-> "pending", lib |-> <<>>]]
    /\ td = << >> /\ stream = 0 /\ replay = FALSE
    /\ ob = Off /\ od = Off

NextHam == ham_cr_call

SpecHam == InitHam /\ [][NextHam]_vars

\* ------------------------------------------------------------------------
\* Angular-momentum operators
\* ------------------------------------------------------------------------
\* J is held as 2J, a matrix as a function of <<row, column>> counted from 1.
\* Jz is held as 2*Jz; the entries of J+ and J- are square roots of whole
\* numbers and are held as their squares.

\* np.diag(v, k): v on the k-th diagonal of a square matrix of size Len(v)+|k|
NpDiag(v, k) ==
    LET n == Len(v) + Abs(k) IN
    [ij \in (1..n) \X (1..n) |->
        IF ij[2] - ij[1] = k
        THEN v[IF k >= 0 THEN ij[1] ELSE ij[2]]
        ELSE 0]

\* np.arange(2*J+1) - J, doubled
JzDiagonal(twoJ) == [i \in 1..(twoJ + 1) |-> 2 * (i - 1) - twoJ]

\* Jz_op
Jz_op(twoJ) == NpDiag(JzDiagonal(twoJ), 0)

\* (2*J - np.arange(2*J))*(np.arange(2*J)+1): the squares of the band entries
LadderSquares(twoJ) == [i \in 1..twoJ |-> (twoJ - (i - 1)) * ((i - 1) + 1)]

\* Jplus_op: np.diag(np.sqrt(...), -1)
Jplus_op_upper(twoJ) == NpDiag(LadderSquares(twoJ), 1)
Jplus_op(twoJ) == NpDiag(LadderSquares(twoJ), -1)

\* Jminus_op: np.diag(np.sqrt(...), 1)
Jminus_op(twoJ) == NpDiag(LadderSquares(twoJ), 1)

\* Jx_op = (J+ + J-)/2 and Jy_op = -1j/2*(J+ - J-): the complex coefficients
\* <<re, im>> of J+ and of J-, in halves
Jx_op == [plus |-> <<1, 0>>, minus |-> <<1, 0>>]
Jy_op == [plus |-> <<0, -1>>, minus |-> <<0, 1>>]

\* gJLS: 1 + (J(J+1) + S(S+1) - L(L+1))/(2J(J+1)) as the fraction <<num, den>>
\* in lowest terms; X(X+1) is held as 4X(X+1)
RECURSIVE Gcd(_, _)
Gcd(a, b) == IF b = 0 THEN a ELSE Gcd(b, a % b)

Lowest(q) ==
    LET g == Gcd(Abs(q[1]), Abs(q[2])) IN
    IF g = 0 THEN q ELSE <<q[1] \div g, q[2] \div g>>

gJLS(twoJ, L, twoS) ==
    LET J2 == twoJ * (twoJ + 2)
        S2 == twoS * (twoS + 2)
        L2 == 4 * L * (L + 1)
    IN Lowest(<<2 * J2 + (J2 + S2 - L2), 2 * J2>>)

\* ------------------------------------------------------------------------
\* Thermal observables
\* ------------------------------------------------------------------------
\* Units.  Energies are whole multiples of an energy unit e; the field B is
\* counted in units of e/muB_over_kB, so that the factor muB_over_kB is 1;
\* temperatures are counted in units of e/ln(4), so that exp(-E/T) is
\* 2^(-2E/T).  The Hamiltonians are diagonal and the field lies along z, where
\* J_op is diagonal and the eigenvectors are the basis vectors.  A value is
\* the exact fraction num/den, or nan where the source divides by zero.
muB_over_kB == 1

Value(num, den) == [nan |-> FALSE, num |-> num, den |-> den]
NaN == [nan |-> TRUE, num |-> 0, den |-> 1]

RECURSIVE Pow2(_)
Pow2(k) == IF k <= 0 THEN 1 ELSE 2 * Pow2(k - 1)

RECURSIVE SumSeq(_)
\* np.sum
SumSeq(a) == IF a = <<>> THEN 0 ELSE Head(a) + SumSeq(Tail(a))

\* np.linspace(a, b, n), for the grids whose points are whole numbers
linspace(a, b, n) ==
    [i \in 1..n |-> IF n = 1 THEN a ELSE a + (i - 1) * ((b - a) \div (n - 1))]

\* np.geomspace(a, b, n), for the grids whose points are whole numbers: a
\* single point, a constant grid, or the two end points; it raises ValueError
\* when an end point is 0
geomspace(a, b, n) ==
    IF a = 0 \/ b = 0
    THEN [kind |-> "raise", err |-> "ValueError: Geometric sequence cannot include zero"]
    ELSE [kind |-> "grid",
          grid |-> [i \in 1..n |-> IF i = 1 THEN a ELSE b]]

\* B_direction/LA.norm(B_direction) for a direction along z
Normalized(dir) == <<0, 0, dir[3] \div Abs(dir[3])>>

\* B_direction[0]*Jx_op() + B_direction[1]*Jy_op() + B_direction[2]*Jz_op():
\* the diagonal of 2*J_op, for a normalized direction along z
J_op(twoJ, d) == [i \in 1..(twoJ + 1) |-> d[3] * Jz_op(twoJ)[<<i, i>>]]

\* the positions of a sequence ordered by ascending value (ties by position)
RECURSIVE Ascending(_, _)
Ascending(a, left) ==
    IF left = {} THEN <<>>
    ELSE LET i == CHOOSE i \in left :
                    \A j \in left : a[i] < a[j] \/ (a[i] = a[j] /\ i <= j)
         IN <<i>> \o Ascending(a, left \ {i})

\* LA.eigh / LA.eigvalsh of a diagonal matrix, then energies - energies[0]:
\* the eigenvalues ascending and shifted, and for each the basis vector that
\* is its eigenvector
Eigh(diagonal) ==
    LET order == Ascending(diagonal, DOMAIN diagonal) IN
    [energies |-> [i \in DOMAIN order |-> diagonal[order[i]] - diagonal[order[1]]],
     eigenstates |-> order]

\* np.exp(-energies/T) up to one common positive factor, which every quotient
\* the source forms cancels.  The energies are held times scale.
Boltzmann(energies, scale, T) ==
    LET k == [i \in DOMAIN energies |-> (-2 * energies[i]) \div (scale * T)]
        kmin == CHOOSE x \in {k[i] : i \in DOMAIN k} :
                    \A i \in DOMAIN k : x <= k[i]
    IN [i \in DOMAIN energies |-> Pow2(k[i] - kmin)]

\* cV(T) = 1/T**2 * (sum(E**2 w)/Z - (sum(E w)/Z)**2)
cV(energies, T) ==
    IF T = 0 THEN NaN
    ELSE LET w == Boltzmann(energies, 1, T)
             Z == SumSeq(w)
             E1 == SumSeq([i \in DOMAIN w |-> energies[i] * w[i]])
             E2 == SumSeq([i \in DOMAIN w |-> energies[i] * energies[i] * w[i]])
         IN Value(Z * E2 - E1 * E1, T * T * Z * Z)

\* specific_heat(ham, T_min, T_max, T_steps): the rows (T_i, cV(T_i))
specific_heat(ham, T_min, T_max, T_steps) ==
    LET T == linspace(T_min, T_max, T_steps)
        energies == Eigh(ham).energies
    IN [kind |-> "array",
        rows |-> [i \in 1..T_steps |-> [T |-> T[i], cV |-> cV(energies, T[i])]]]

\* ham_cr - gJLS*muB_over_kB*J_op*B: the diagonal, times 2*den(gJLS)
FieldHamiltonianPlus(ham0, g, Jop, B) ==
    [i \in DOMAIN ham0 |-> 2 * g[2] * ham0[i] + g[1] * muB_over_kB * Jop[i] * B]
FieldHamiltonian(ham0, g, Jop, B) ==
    [i \in DOMAIN ham0 |-> 2 * g[2] * ham0[i] - g[1] * muB_over_kB * Jop[i] * B]

\* gJLS/ZB*sum_i <psi_i|J_op|psi_i> exp(-energies[i]/T)
Moment(g, Jop, eig, T) ==
    IF T = 0 THEN NaN
    ELSE LET w == Boltzmann(eig.energies, 2 * g[2], T)
         IN Value(g[1] * SumSeq([i \in DOMAIN w |-> Jop[eig.eigenstates[i]] * w[i]]),
                  2 * g[2] * SumSeq(w))

\* the perturbed Hamiltonian and the moment as magnetization forms them
MagHam(ham0, g, Jop, B) == FieldHamiltonian(ham0, g, Jop, B)
MagMoment(g, Jop, eig, T) == Moment(g, Jop, eig, T)

\* magnetization(ham_cr, B_direction, B_min, B_max, B_steps, T_min, T_max,
\* T_steps): the entries (B, T, mag), B outermost
magnetization(twoJ, L, twoS, ham0, B_direction, B_min, B_max, B_steps, T_min, T_max, T_steps) ==
    LET g == gJLS(twoJ, L, twoS)
        T_array == geomspace(T_min, T_max, T_steps)
        B_array == linspace(B_min, B_max, B_steps)
        Jop == J_op(twoJ, Normalized(B_direction))
    IN IF T_array.kind = "raise" THEN T_array
       ELSE [kind |-> "array",
             rows |-> [b \in 1..B_steps |-> [t \in 1..T_steps |->
                 [B |-> B_array[b], T |-> T_array.grid[t],
                  mag |-> MagMoment(g, Jop,
                              Eigh(MagHam(ham0, g, Jop, B_array[b])),
                              T_array.grid[t])]]]]

\* the perturbed Hamiltonian and the moment as susceptibility forms them
SuscHam(ham0, g, Jop, B) == FieldHamiltonian(ham0, g, Jop, B)
SuscMoment(g, Jop, eig, T) == Moment(g, Jop, eig, T)

\* mag/B
Over(x, B) == IF x.nan \/ B = 0 THEN NaN ELSE Value(x.num, x.den * B)

\* susceptibility(ham_cr, B_direction, B, T_min, T_max, T_steps): the rows
\* (T_i, mag(T_i)/B)
susceptibility(twoJ, L, twoS, ham0, B_direction, B, T_min, T_max, T_steps) ==
    LET g == gJLS(twoJ, L, twoS)
        T_array == linspace(T_min, T_max, T_steps)
        Jop == J_op(twoJ, Normalized(B_direction))
        eig == Eigh(SuscHam(ham0, g, Jop, B))
    IN [kind |-> "array",
        rows |-> [t \in 1..T_steps |->
            [T |-> T_array[t],
             susc |-> Over(SuscMoment(g, Jop, eig, T_array[t]), B)]]]

\* --- the instances and arguments tried ---------------------------------
\* the ions (2J, L, 2S): S = J and L = 0 for every J up to MaxTwoJ/2, and
\* J = 1, L = 1, S = 0
Ions ==
    {[J |-> tj, L |-> 0, S |-> tj] : tj \in 0..MaxTwoJ} \cup {[J |-> 2, L |-> 1, S |-> 0]}

\* the ions whose observables the whole-number arithmetic holds exactly
Thermal(ion) == ion.J \in {1, 2}

\* zero-field Hamiltonians: the diagonal 0 and the diagonal whose first basis
\* state is raised above the others
ZeroFieldHams(twoJ) ==
    {[i \in 1..(twoJ + 1) |-> IF i <= k THEN 1 ELSE 0] : k \in 0..1}

\* field directions along z
Directions == {<<0, 0, 1>>, <<0, 0, -2>>}

\* (T_min, T_max) of the linear grids, T_min <= 0 included, and the numbers of
\* steps for which the grid points are whole
LinearEnds == {<<1, 2>>, <<0, 2>>, <<-2, 2>>}
LinearGrids ==
    {<<e[1], e[2], n>> : e \in LinearEnds, n \in 2..MaxSteps} \cap
    {<<a, b, n>> \in (-2..2) \X (-2..2) \X (2..MaxSteps) :
        (b - a) % (n - 1) = 0}

\* (T_min, T_max, T_steps) of the geometric grids
GeometricGrids ==
    {<<1, 2, 2>>, <<0, 2, 2>>} \cup {<<2, 2, n>> : n \in 2..MaxSteps}

\* (B_min, B_max, B_steps) of the field grids and the weak field B
FieldGrids == {<<0, 1, 2>>, <<1, 1, 1>>}
WeakFields == {0, 1}

None == [kind |-> "none"]

\* the operators of the instance are built
build_operators ==
    /\ ob.pc = "on" /\ ob.ops = None
    /\ ob' = [ob EXCEPT !.ops =
                [kind |-> "built",
                 Jz |-> Jz_op(ob.J), Jplus |-> Jplus_op(ob.J),
                 Jminus |-> Jminus_op(ob.J), Jx |-> Jx_op, Jy |-> Jy_op]]
    /\ UNCHANGED <<td, stream, replay, hc, od>>

specific_heat_call ==
    /\ ob.pc = "on" /\ Thermal(ob)
    /\ \E r \in LinearGrids :
          ob' = [ob EXCEPT !.cV =
                    [args |-> [T_min |-> r[1], T_max |-> r[2], T_steps |-> r[3]],
                     out |-> specific_heat(ob.ham, r[1], r[2], r[3])]]
    /\ UNCHANGED <<td, stream, replay, hc, od>>

susceptibility_call ==
    /\ ob.pc = "on" /\ Thermal(ob)
    /\ \E d \in Directions, B \in WeakFields, r \in LinearGrids :
          ob' = [ob EXCEPT !.susc =
                    [args |-> [B_direction |-> d, B |-> B,
                               T_min |-> r[1], T_max |-> r[2], T_steps |-> r[3]],
                     out |-> susceptibility(ob.J, ob.L, ob.S, ob.ham, d, B,
                                            r[1], r[2], r[3])]]
    /\ UNCHANGED <<td, stream, replay, hc, od>>

magnetization_call ==
    /\ ob.pc = "on" /\ Thermal(ob)
    /\ \E d \in Directions, f \in FieldGrids, r \in GeometricGrids :
          ob' = [ob EXCEPT !.mag =
                    [args |-> [B_direction |-> d,
                               B_min |-> f[1], B_max |-> f[2], B_steps |-> f[3],
                               T_min |-> r[1], T_max |-> r[2], T_steps |-> r[3]],
                     out |-> magnetization(ob.J, ob.L, ob.S, ob.ham, d,
                                           f[1], f[2], f[3], r[1], r[2], r[3])]]
    /\ UNCHANGED <<td, stream, replay, hc, od>>

InitObs ==
    /\ \E ion \in Ions : \E ham \in ZeroFieldHams(ion.J) :
          ob = [pc |-> "on", J |-> ion.J, L |-> ion.L, S |-> ion.S, ham |-> ham,
                ops |-> None,
                cV |-> [args |-> None, out |-> None],
                susc |-> [args |-> None, out |-> None],
                mag |-> [args |-> None, out |-> None]]
    /\ td = << >> /\ stream = 0 /\ replay = FALSE
    /\ hc = Off /\ od = Off

NextObs ==
    \/ build_operators
    \/ specific_heat_call
    \/ susceptibility_call
    \/ magnetization_call

SpecObs == InitObs /\ [][NextObs]_vars

\* ------------------------------------------------------------------------
\* output_all_data
\* ------------------------------------------------------------------------
\* One call of output_all_data, stepped at the calls it makes.  The matrices
\* of the ham_cr library are not part of the source, so a Hamiltonian is the
\* library call that builds it and an observable array is the call that
\* computes it: the function, the Hamiltonian handed in and the arguments.

\* generate_random_stevens as one step: every vector a call can return when
\* its draws come from the set draws
Sampled(pg, range, W_sign, draws) ==
    IF pg = "Oh"
    THEN {OhBranch(range, W_sign, u0, u1) : u0 \in draws, u1 \in draws}
    ELSE IF pg \in {"C4v", "D3h"}
    THEN {[q EXCEPT ![Len(q)] = SignDraw(u)] :
            q \in {x \in {OnePass(pg, range, W_sign, us) :
                            us \in [1..LoopEntries(pg) -> draws]} : ~LoopCond(x)},
            u \in draws}
    ELSE {}

\* the stepwise loop returns nothing that the one-step form leaves out
ReturnedIsSampled ==
    \A t \in DOMAIN td :
        td[t].pc = "done" =>
            td[t].ret \in Sampled(td[t].point_group, td[t].range, td[t].W_sign,
                                  0..(Levels - 1))

\* self.specific_heat(ham_cr, T_min = cV_T_range[0], ...)
SpecificHeatCall(ham, T_range) ==
    [fn |-> "specific_heat", ham |-> ham, T |-> T_range]

\* self.susceptibility(ham_cr, B_direction, B = 0.0001, ...)
SusceptibilityCall(ham, B_direction, T_range) ==
    [fn |-> "susceptibility", ham |-> ham, B_direction |-> B_direction,
     B |-> "0.0001", T |-> T_range]

\* self.magnetization(ham_cr, B_direction, B_min = mag_B_range[0], ...)
MagnetizationCall(ham, B_direction, B_range, T_range) ==
    [fn |-> "magnetization", ham |-> ham, B_direction |-> B_direction,
     B |-> B_range, T |-> T_range]

\* the default ranges [T_min, T_max, T_steps] and [B_min, B_max, B_steps]
cV_T_range == <<1, 300, 100>>
susc_T_range == <<1, 300, 100>>
mag_T_range == <<1, 300, 4>>
mag_B_range == <<"0.5", 10, 20>>

\* np.zeros(...): the grid columns not yet written and no direction column
Zeros == [grid |-> "zeros", cols |-> <<>>]

\* column 1 + B_direction_idx (2 + B_direction_idx) receives the values of the
\* array; the grid columns are written while B_direction_idx == 0
FillFirstColumn(data, B_direction_idx, array) ==
    [grid |-> array, cols |-> <<array>>]
FillColumn(data, B_direction_idx, array) ==
    [grid |-> IF B_direction_idx = 0 THEN array ELSE data.grid,
     cols |-> [i \in 1..(IF B_direction_idx + 1 > Len(data.cols)
                         THEN B_direction_idx + 1 ELSE Len(data.cols)) |->
                 IF i = B_direction_idx + 1 THEN array
                 ELSE IF i <= Len(data.cols) THEN data.cols[i] ELSE "zeros"]]

\* the k-th field direction of an instance
DirectionAt(k) == IF k % 2 = 1 THEN <<k, 0, 0>> ELSE <<0, 0, k>>

\* 2J of the instances: J = 4, which the library has, and J = 15 of the driver
DataTwoJ == {8, 30}

\* the arguments <<Stevens_range, W_sign>> of the call
DataArgs ==
    { << << <<1, 50>>, <<-1, 1>>, <<0, 0>>, <<0, 0>>, <<0, 0>> >>, -1 >>,
      << << <<1, 2>>,  <<0, 1>>,  <<0, 0>>, <<-1, 0>>, <<0, 0>> >>, 1 >> }

\* the draws tried: the smallest and the largest
DataDraws == {0, Levels - 1}

Unset == [kind |-> "unset"]

\* the exception leaves output_all_data: its lists are gone with its frame
Abort(o, e) == [o EXCEPT !.pc = "error", !.err = e]

\* for N_t_idx in range(0, self.N_t): generate_random_stevens and the append
output_all_data_draw ==
    /\ od.pc = "for" /\ od.N_t_idx < od.N_t
    /\ IF od.point_group \notin {"Oh", "C4v", "D3h"}
       THEN od' = Abort(od, "ValueError: This point group is not implemented.")
       ELSE \E p \in Sampled(od.point_group, od.Stevens_range, od.W_sign, DataDraws) :
              od' = [od EXCEPT !.pc = "ham_cr",
                               !.stevens_params = p,
                               !.drawn = Append(@, p),
                               !.stevens_params_all = Append(@, p)]
    /\ UNCHANGED <<td, stream, replay, hc, ob>>

\* ham_cr = self.ham_cr(stevens_params)
output_all_data_ham_cr ==
    /\ od.pc = "ham_cr"
    /\ LET h == ham_cr(od.point_group, od.J, od.stevens_params) IN
       IF h.kind = "raise" THEN od' = Abort(od, h.err)
       ELSE od' = [od EXCEPT !.pc = "specific_heat", !.ham_cr = h,
                             !.trace = Append(@, [draw |-> od.N_t_idx,
                                                  call |-> [fn |-> "ham_cr", ham |-> h]])]
    /\ UNCHANGED <<td, stream, replay, hc, ob>>

\* cV_data_all.append(self.specific_heat(ham_cr, ...)), then the two np.zeros;
\* eigvalsh raises on the None that ham_cr returns for a J it has no branch for
output_all_data_specific_heat ==
    /\ od.pc = "specific_heat"
    /\ IF od.ham_cr.kind # "matrix"
       THEN od' = Abort(od, "eigvalsh: not an array")
       ELSE LET c == SpecificHeatCall(od.ham_cr.ham, cV_T_range) IN
            od' = [od EXCEPT !.pc = "direction",
                             !.cV_data_all = Append(@, c),
                             !.B_direction_idx = 0,
                             !.susc_data = Zeros, !.mag_data = Zeros,
                             !.trace = Append(@, [draw |-> od.N_t_idx, call |-> c])]
    /\ UNCHANGED <<td, stream, replay, hc, ob>>

\* one pass of for B_direction_idx in range(0, B_direction_steps)
output_all_data_direction ==
    /\ od.pc = "direction" /\ od.B_direction_idx < Len(od.B_directions)
    /\ LET B_direction == od.B_directions[od.B_direction_idx + 1]
           susc_array == SusceptibilityCall(od.ham_cr.ham, B_direction, susc_T_range)
           mag_array == MagnetizationCall(od.ham_cr.ham, B_direction,
                                          mag_B_range, mag_T_range)
       IN od' = [od EXCEPT
                   !.susc_data = FillColumn(@, od.B_direction_idx, susc_array),
                   !.mag_data = FillColumn(@, od.B_direction_idx, mag_array),
                   !.B_direction_idx = @ + 1,
                   !.trace = @ \o <<[draw |-> od.N_t_idx, call |-> susc_array],
                                    [draw |-> od.N_t_idx, call |-> mag_array]>>]
    /\ UNCHANGED <<td, stream, replay, hc, ob>>

\* susc_data_all.append(susc_data); mag_data_all.append(mag_data)
output_all_data_append ==
    /\ od.pc = "direction" /\ od.B_direction_idx = Len(od.B_directions)
    /\ od' = [od EXCEPT !.pc = "for",
                        !.susc_data_all = Append(@, od.susc_data),
                        !.mag_data_all = Append(@, od.mag_data),
                        !.N_t_idx = @ + 1]
    /\ UNCHANGED <<td, stream, replay, hc, ob>>

\* return stevens_params_all, cV_data_all, susc_data_all, mag_data_all
output_all_data_return ==
    /\ od.pc = "for" /\ od.N_t_idx = od.N_t
    /\ od' = [od EXCEPT !.pc = "done",
                        !.ret = <<od.stevens_params_all, od.cV_data_all,
                                  od.susc_data_all, od.mag_data_all>>]
    /\ UNCHANGED <<td, stream, replay, hc, ob>>

InitData ==
    /\ \E pg \in PointGroups, twoJ \in DataTwoJ, N_t \in 0..MaxNt,
          n \in 0..MaxDirections, a \in DataArgs :
          od = [pc |-> "for", point_group |-> pg, J |-> twoJ, N_t |-> N_t,
                B_directions |-> [k \in 1..n |-> DirectionAt(k)],
                Stevens_range |-> a[1], W_sign |-> a[2],
                N_t_idx |-> 0,
                stevens_params_all |-> <<>>, cV_data_all |-> <<>>,
                susc_data_all |-> <<>>, mag_data_all |-> <<>>,
                stevens_params |-> <<>>, ham_cr |-> Unset, B_direction_idx |-> 0,
                susc_data |-> Zeros, mag_data |-> Zeros,
                drawn |-> <<>>, trace |-> <<>>, ret |-> <<>>, err |-> "none"]
    /\ td = << >> /\ stream = 0 /\ replay = FALSE
    /\ hc = Off /\ ob = Off

NextData ==
    \/ output_all_data_draw
    \/ output_all_data_ham_cr
    \/ output_all_data_specific_heat
    \/ output_all_data_direction
    \/ output_all_data_append
    \/ output_all_data_return

SpecData == InitData /\ [][NextData]_vars

\* ------------------------------------------------------------------------
\* generate_random_stevens with no bound on the passes of its loop
\* ------------------------------------------------------------------------
\* the call of instance t is inside its while loop
InLoop(t) == td[t].pc \in {"while", "body"}

\* some pass of the loop is accepted
Feasible(t) == td[t].accept # {}

\* one accepting pass, draw by draw: assignment i of a pass whose earlier
\* assignments agree with an accepted pass takes a draw that still does
AcceptingStep(i) ==
    /\ \E t \in DOMAIN td :
          /\ InLoop(t)
          /\ \E q \in td[t].accept, u \in 0..(Levels - 1) :
                /\ \A j \in 1..i : td[t].stevens_params[j] = q[j]
                /\ LoopAssign(td[t].stevens_params, i, td[t].range,
                              td[t].W_sign, u)[i + 1] = q[i + 1]
                /\ IF i = 0 THEN LoopFirst(t, u)
                   ELSE td[t].i = i /\ LoopNext(t, u)
    /\ UNCHANGED <<hc, ob, od>>

\* one instance with its last call still to make; its seed plays no part
\* when any draw may come
InitLive ==
    /\ \E pg \in PointGroups :
          td = [t \in {1} |-> [NewInstance(t, pg, 1) EXCEPT
                                  !.counted = FALSE, !.calls = MaxCalls - 1]]
    /\ stream = 0 /\ replay = FALSE
    /\ hc = Off /\ ob = Off /\ od = Off

\* The interpreter runs a call that has started: the statement reached is
\* executed (weak fairness of the loop steps).  The random source is fair:
\* a pattern of draws that can follow a state reached again and again does
\* follow it at some time (strong fairness of the steps of an accepting pass).
\* Nothing obliges the caller to make a call.
Running ==
    /\ WF_vars(while_first) /\ WF_vars(while_next) /\ WF_vars(while_exit)
    /\ \A i \in 0..4 : SF_vars(AcceptingStep(i))

SpecLive == InitLive /\ [][Next]_vars /\ Running

\* ------------------------------------------------------------------------
\* Claims about generate_random_stevens
\* ------------------------------------------------------------------------
Supported == {"Oh", "C4v", "D3h"}

\* x (held times Levels) lies within the range r = [min, max]
InRange(x, r) == r[1] * Levels <= x /\ x <= r[2] * Levels

RECURSIVE InteriorAbsSum(_)
\* the sum of |v[j]| over all entries but the first and the last
InteriorAbsSum(v) ==
    IF Len(v) <= 2 THEN 0
    ELSE Abs(v[2]) + InteriorAbsSum(<<v[1]>> \o SubSeq(v, 3, Len(v)))

Sign(x) == IF x > 0 THEN 1 ELSE IF x < 0 THEN -1 ELSE 0

\* C1: every vector returned for C4v (6 entries) or D3h (5 entries) has the
\* sum of the absolute values of its interior entries at most 1, whatever the
\* range table, the sign selector and the draws.
C1_InteriorSumAtMostOne ==
    \A t \in DOMAIN td :
        (td[t].pc = "done" /\ td[t].point_group \in {"C4v", "D3h"}) =>
            /\ Len(td[t].ret) = (IF td[t].point_group = "C4v" THEN 6 ELSE 5)
            /\ InteriorAbsSum(td[t].ret) <= Levels

\* a C4v call that returned after a rejected pass, its interior sum exactly 1
C1_Witness ==
    \E t \in DOMAIN td :
        /\ td[t].pc = "done" /\ td[t].point_group = "C4v" /\ td[t].k >= 2
        /\ InteriorAbsSum(td[t].ret) = Levels

\* C2: with a point group tag other than Oh, C4v, D3h every call ends in the
\* not-implemented error, returns nothing, and the generator has made no draw:
\* its state is the one it had before the call.
C2_UnsupportedRaisesWithoutDraw ==
    \A t \in DOMAIN td :
        td[t].point_group \notin Supported =>
            /\ td[t].rg = init_rg(t, td[t].rng_seed)
            /\ td[t].n = 0
            /\ td[t].calls > 0 =>
                  /\ td[t].pc = "error"
                  /\ td[t].err = "ValueError: point group not implemented"
                  /\ td[t].ret = <<>>

\* two calls on an unsupported tag have failed
C2_Witness ==
    \E t \in DOMAIN td :
        /\ td[t].point_group = "Td" /\ td[t].calls = 2 /\ td[t].pc = "error"

\* C3: for Oh a call returns with no pass of the loop after exactly two draws;
\* the second entry lies within range[1], the first is W_sign times a value
\* within range[0], and for a positive range[0] and W_sign in {+1, -1} the sign
\* of the first entry is W_sign.
C3_OhTwoDrawsInRange ==
    \A t \in DOMAIN td :
        td[t].point_group = "Oh" =>
            /\ td[t].pc \in {"idle", "done"}
            /\ td[t].rg.pos = 2 * td[t].calls
            /\ td[t].pc = "done" =>
                  /\ td[t].n = 2 /\ td[t].k = 0
                  /\ Len(td[t].ret) = 2
                  /\ InRange(td[t].ret[2], td[t].range[2])
                  /\ \E v \in (td[t].range[1][1] * Levels)..(td[t].range[1][2] * Levels) :
                        td[t].ret[1] = td[t].W_sign * v
                  /\ (td[t].range[1][1] > 0 /\ td[t].W_sign \in {1, -1}) =>
                        Sign(td[t].ret[1]) = td[t].W_sign

\* a second Oh call that returned a negative leading entry for W_sign = -1
C3_Witness ==
    \E t \in DOMAIN td :
        /\ td[t].point_group = "Oh" /\ td[t].pc = "done" /\ td[t].calls = 2
        /\ td[t].W_sign = -1 /\ td[t].ret[1] < 0 /\ td[t].range[1][1] > 0

\* the first i calls of instances a and b had the same arguments
SameCalls(a, b, i) ==
    /\ i <= Len(td[a].args) /\ i <= Len(td[b].args)
    /\ \A j \in 1..i : td[a].args[j] = td[b].args[j]

\* C4: two instances constructed with the same seed and point group and given
\* the same sequence of calls return the same sequence of vectors.
C4_SameSeedSameVectors ==
    \A a, b \in DOMAIN td :
        (td[a].rng_seed = td[b].rng_seed /\ td[a].point_group = td[b].point_group) =>
            \A i \in 1..Len(td[a].outs) :
                (i <= Len(td[b].outs) /\ SameCalls(a, b, i)) =>
                    td[a].outs[i] = td[b].outs[i]

\* two instances with one seed and one group have each answered the same call
C4_Witness ==
    /\ DOMAIN td = {1, 2}
    /\ td[1].rng_seed = td[2].rng_seed /\ td[1].point_group = td[2].point_group
    /\ Len(td[1].outs) >= 1 /\ Len(td[2].outs) >= 1
    /\ SameCalls(1, 2, 1)
    /\ td[1].point_group = "D3h"

\* the calls of the loop groups and m, the number of their interior entries
LoopGroupCalls == {t \in DOMAIN td : td[t].point_group \in {"C4v", "D3h"} /\ td[t].calls > 0}
InteriorEntries(pg) == IF pg = "C4v" THEN 4 ELSE 3

\* C11 as stated: a call of a loop group whose loop ran k times has consumed
\* 1 + k*m + 1 draws and returns as leading entry W_sign times the value of the
\* first draw of the call.  The source redraws stevens_params[0] in every
\* pass, so this fails as soon as a pass is rejected.
C11_LeadDrawnOncePerCall ==
    \A t \in LoopGroupCalls :
        td[t].pc = "done" =>
            /\ td[t].n = 1 + td[t].k * InteriorEntries(td[t].point_group) + 1
            /\ td[t].ret[1] = Lead(td[t].range, td[t].W_sign, td[t].u_first)

\* C11, amended: every pass of the loop draws the leading entry and the m
\* interior entries again; at the while test after k passes k*(m+1) draws are
\* consumed, a returned call has consumed k*(m+1) + 1 with k >= 1, and its
\* leading entry is W_sign times the value of the first draw of the last pass.
C11_LeadRedrawnEveryPass ==
    \A t \in LoopGroupCalls :
        LET m == InteriorEntries(td[t].point_group) IN
        /\ td[t].pc = "while" => td[t].n = td[t].k * (m + 1)
        /\ td[t].pc = "body" => td[t].n = (td[t].k - 1) * (m + 1) + td[t].i
        /\ td[t].pc = "done" =>
              /\ td[t].k >= 1
              /\ td[t].n = td[t].k * (m + 1) + 1
              /\ td[t].ret[1] = Lead(td[t].range, td[t].W_sign, td[t].u_lead)
              /\ Len(td[t].ret) = m + 2

C11_Witness ==
    \E t \in LoopGroupCalls :
        /\ td[t].pc = "done" /\ td[t].k = 2
        /\ td[t].point_group = "C4v" /\ td[t].n = 11
        /\ td[t].u_first # td[t].u_lead
        /\ td[t].ret[1] # Lead(td[t].range, td[t].W_sign, td[t].u_first)

\* ------------------------------------------------------------------------
\* Claims about ham_cr
\* ------------------------------------------------------------------------
\* the parameter count of each supported point group
ExpectedCount(pg) == IF pg = "Oh" THEN 2 ELSE IF pg = "C4v" THEN 6 ELSE 5

CountErrors ==
    {"ValueError: Number of Stevens parameters should be 2 for point group Oh",
     "ValueError: Number of Stevens parameters should be 5+1=6 for point group C4v",
     "ValueError: Number of Stevens parameters should be 4+1=5 for point group D3h"}

\* C5: for Oh, C4v, D3h a vector whose length differs from 2, 6, 5 makes
\* ham_cr fail with the parameter-count error, for every J, and no function of
\* the Hamiltonian library has been called.
C5_WrongLengthRaisesBeforeLibrary ==
    (/\ hc.pc = "called"
     /\ hc.point_group \in Supported
     /\ Len(hc.stevens_params) # ExpectedCount(hc.point_group)) =>
        /\ hc.out.kind = "raise"
        /\ hc.out.err \in CountErrors
        /\ hc.out.lib = <<>>

\* a C4v call with five parameters and a J the library has
C5_Witness ==
    /\ hc.pc = "called" /\ hc.point_group = "C4v" /\ hc.J = 8
    /\ Len(hc.stevens_params) = 5 /\ hc.out.kind = "raise"

\* the library has a basis for this point group and J
HasBasis(pg, twoJ) == pg \in Supported /\ twoJ \in {7, 8, 9, 12, 15, 16}

\* C6: for every (point group, J) without a precomputed basis, a supported
\* point group with a vector of the right length included, ham_cr fails with
\* the not-implemented error; it never returns a value that is no matrix.
C6_NoBasisRaises ==
    (/\ hc.pc = "called"
     /\ ~HasBasis(hc.point_group, hc.J)
     /\ hc.point_group \in Supported =>
            Len(hc.stevens_params) = ExpectedCount(hc.point_group)) =>
        /\ hc.out.kind = "raise"
        /\ hc.out.err = "ValueError: This point group and/or value of J is not implemented."

\* ------------------------------------------------------------------------
\* Claims about the thermal observables and the operators
\* ------------------------------------------------------------------------
Observables == {ob.cV, ob.susc, ob.mag}

\* the values of a result, with the temperature each was computed at
ValuesOf(out) ==
    IF out.kind # "array" THEN {}
    ELSE IF out = ob.cV.out
         THEN {[T |-> out.rows[i].T, nan |-> out.rows[i].cV.nan] : i \in DOMAIN out.rows}
    ELSE IF out = ob.susc.out
         THEN {[T |-> out.rows[i].T, nan |-> out.rows[i].susc.nan] : i \in DOMAIN out.rows}
    ELSE UNION {{[T |-> out.rows[b][t].T, nan |-> out.rows[b][t].mag.nan] :
                    t \in DOMAIN out.rows[b]} : b \in DOMAIN out.rows}

\* C7: specific_heat, susceptibility and magnetization called with
\* T_min <= 0 raise before any grid point is computed, and no value is ever
\* computed at T = 0.  The source does not do this: specific_heat and
\* susceptibility validate nothing and return an array with a row for T = 0.
C7_NonPositiveTminRejected ==
    ob.pc = "on" =>
        \A f \in Observables :
            /\ (f.args # None /\ f.args.T_min <= 0) => f.out.kind = "raise"
            /\ \A v \in ValuesOf(f.out) : v.T # 0

\* the root of a whole square, -1 for any other number
Root(x) ==
    IF \E r \in 0..x : r * r = x THEN CHOOSE r \in 0..x : r * r = x ELSE -1

\* entry <<a, b>> of the product of two matrices held as squares of entries
ProductEntry(P, M, n, a, b) ==
    SumSeq([k \in 1..n |-> Root(P[<<a, k>>] * M[<<k, b>>])])

\* [P, M] = P M - M P
Commutator(P, M, n) ==
    [ij \in (1..n) \X (1..n) |->
        ProductEntry(P, M, n, ij[1], ij[2]) - ProductEntry(M, P, n, ij[1], ij[2])]

\* the product of two complex numbers <<re, im>>
CMul(x, y) == <<x[1] * y[1] - x[2] * y[2], x[1] * y[2] + x[2] * y[1]>>

\* C8: for every J the built Jz is diagonal with entries -J, -J+1, ..., J in
\* ascending order (held doubled); Jplus has the squared entry
\* (J-m)(J+m+1) in the column of m and the row of m+1 and zero elsewhere,
\* Jminus is its transpose; [J+, J-] = 2 Jz; and with the coefficients of Jx
\* and Jy over J+ and J-, [Jx, Jy] = i Jz.
C8_OperatorsSatisfyAngularMomentumAlgebra ==
    (ob.pc = "on" /\ ob.ops # None) =>
        LET n == ob.J + 1
            o == ob.ops
            C == Commutator(o.Jplus, o.Jminus, n)
            c == <<CMul(o.Jx.plus, o.Jy.minus)[1] - CMul(o.Jx.minus, o.Jy.plus)[1],
                   CMul(o.Jx.plus, o.Jy.minus)[2] - CMul(o.Jx.minus, o.Jy.plus)[2]>>
        IN /\ DOMAIN o.Jz = (1..n) \X (1..n)
           /\ DOMAIN o.Jplus = (1..n) \X (1..n)
           /\ DOMAIN o.Jminus = (1..n) \X (1..n)
           /\ \A i, j \in 1..n :
                LET twoM == 2 * (j - 1) - ob.J IN
                /\ o.Jz[<<i, j>>] = IF i = j THEN twoM ELSE 0
                /\ 4 * o.Jplus[<<i, j>>] =
                      IF i = j + 1 THEN (ob.J - twoM) * (ob.J + twoM + 2) ELSE 0
                /\ o.Jminus[<<i, j>>] = o.Jplus[<<j, i>>]
                /\ C[<<i, j>>] = o.Jz[<<i, j>>]
                \* [Jx, Jy] = c/4 [J+, J-] and i Jz = i/2 (2 Jz)
                /\ c[1] * C[<<i, j>>] = 0
                /\ c[2] * C[<<i, j>>] = 2 * o.Jz[<<i, j>>]
           /\ o.Jx = [plus |-> <<1, 0>>, minus |-> <<1, 0>>]

C8_Witness ==
    /\ ob.pc = "on" /\ ob.ops # None
    /\ ob.J = 3
    /\ ob.ops.Jplus[<<2, 1>>] = 3 /\ ob.ops.Jplus[<<3, 2>>] = 4

\* the rows of the two results that belong to the same field and temperature
Matching ==
    IF ob.pc # "on" \/ ob.susc.out.kind # "array" \/ ob.mag.out.kind # "array"
    THEN {}
    ELSE IF ob.susc.args.B_direction # ob.mag.args.B_direction \/ ob.susc.args.B = 0
    THEN {}
    ELSE {<<ob.susc.out.rows[s], ob.mag.out.rows[b][t]>> :
              s \in DOMAIN ob.susc.out.rows, b \in 1..ob.mag.args.B_steps,
              t \in 1..ob.mag.args.T_steps} \cap
         {x \in {<<ob.susc.out.rows[s], ob.mag.out.rows[b][t]>> :
                    s \in DOMAIN ob.susc.out.rows, b \in 1..ob.mag.args.B_steps,
                    t \in 1..ob.mag.args.T_steps} :
              x[2].B = ob.susc.args.B /\ x[2].T = x[1].T}

\* C10: for the same zero-field Hamiltonian, direction, temperature T and
\* nonzero field B, the susceptibility at T times B is the magnetization at
\* (B, T), in exact arithmetic.
C10_SusceptibilityTimesBIsMagnetization ==
    \A x \in Matching :
        /\ ~x[1].susc.nan /\ ~x[2].mag.nan
        /\ x[1].susc.num * ob.susc.args.B * x[2].mag.den = x[2].mag.num * x[1].susc.den

C10_Witness ==
    \E x \in Matching :
        /\ x[2].mag.num # 0 /\ ~x[1].susc.nan
        /\ ob.J = 2 /\ ob.ham[1] = 1
        /\ ob.susc.args.B_direction = <<0, 0, -2>>

\* ------------------------------------------------------------------------
\* Claims about output_all_data
\* ------------------------------------------------------------------------
\* the calls of one kind made during draw i (counted from 1)
CallsOf(i, fn) ==
    {n \in DOMAIN od.trace : od.trace[n].draw = i - 1 /\ od.trace[n].call.fn = fn}

\* C9: at every draw boundary the four lists have the length k of the draws
\* completed; entry i of each is computed from the vector of draw i; during
\* draw i specific_heat is called once and susceptibility and magnetization
\* once per field direction, all on the Hamiltonian ham_cr built from that
\* vector; on return each list has N_t entries.
C9_ParallelSequencesPerDraw ==
    od.pc \in {"for", "done"} =>
        LET k == od.N_t_idx
            dirs == DOMAIN od.B_directions
        IN /\ Len(od.drawn) = k
           /\ Len(od.stevens_params_all) = k /\ Len(od.cV_data_all) = k
           /\ Len(od.susc_data_all) = k /\ Len(od.mag_data_all) = k
           /\ \A i \in 1..k :
                LET h == ham_cr(od.point_group, od.J, od.drawn[i]) IN
                /\ od.stevens_params_all[i] = od.drawn[i]
                /\ h.kind = "matrix"
                /\ od.cV_data_all[i] = SpecificHeatCall(h.ham, cV_T_range)
                /\ DOMAIN od.susc_data_all[i].cols = dirs
                /\ DOMAIN od.mag_data_all[i].cols = dirs
                /\ \A d \in dirs :
                     /\ od.susc_data_all[i].cols[d] =
                           SusceptibilityCall(h.ham, od.B_directions[d], susc_T_range)
                     /\ od.mag_data_all[i].cols[d] =
                           MagnetizationCall(h.ham, od.B_directions[d],
                                             mag_B_range, mag_T_range)
                     /\ Cardinality({n \in CallsOf(i, "susceptibility") :
                           od.trace[n].call.B_direction = od.B_directions[d]}) = 1
                     /\ Cardinality({n \in CallsOf(i, "magnetization") :
                           od.trace[n].call.B_direction = od.B_directions[d]}) = 1
                /\ Cardinality(CallsOf(i, "ham_cr")) = 1
                /\ Cardinality(CallsOf(i, "specific_heat")) = 1
                /\ Cardinality(CallsOf(i, "susceptibility")) = Cardinality(dirs)
                /\ Cardinality(CallsOf(i, "magnetization")) = Cardinality(dirs)
                /\ \A n \in DOMAIN od.trace :
                     od.trace[n].draw = i - 1 =>
                        od.trace[n].call.ham =
                           IF od.trace[n].call.fn = "ham_cr" THEN h ELSE h.ham
           /\ \A m, n \in DOMAIN od.trace : m <= n => od.trace[m].draw <= od.trace[n].draw
           /\ od.pc = "done" =>
                /\ k = od.N_t
                /\ od.ret = <<od.stevens_params_all, od.cV_data_all,
                              od.susc_data_all, od.mag_data_all>>

C9_Witness ==
    /\ od.pc = "done" /\ od.N_t = 2 /\ Len(od.B_directions) = 2
    /\ od.point_group = "C4v"
    /\ Len(od.ret[1]) = 2 /\ od.ret[1][1] # od.ret[1][2]
    /\ Len(od.ret[3][2].cols) = 2

\* ------------------------------------------------------------------------
\* Claims about the termination of generate_random_stevens
\* ------------------------------------------------------------------------
\* C12: the loop of a 'C4v' or 'D3h' call has no cap on its passes.  Under a
\* fair random source a call whose ranges admit an accepted tuple of interior
\* values eventually returns; a call whose ranges admit none stays in the
\* loop for ever, starting pass after pass, and neither returns nor raises.
C12_ReturnsIffSomeTupleAccepted ==
    /\ (InLoop(1) /\ Feasible(1)) ~> (td[1].pc = "done")
    /\ [][(InLoop(1) /\ ~Feasible(1)) => (InLoop(1) /\ ~Feasible(1))']_vars
    /\ (InLoop(1) /\ ~Feasible(1)) ~> (td[1].pc = "body" /\ td[1].i = 1)

C12_Witness ==
    /\ DOMAIN td = {1} /\ ~td[1].counted
    /\ td[1].pc = "done" /\ td[1].point_group = "C4v"
    /\ td[1].k = MaxLoops /\ td[1].calls = MaxCalls

====
